---- MODULE Spec2Model ----
(***************************************************************************)
(* Presentation controller of js/presentation.js: slide navigation, the    *)
(* click-reveal sequencer, the two "fordypning" dependency widgets of      *)
(* slides 10 and 11, and the timers the handlers schedule.                 *)
(*                                                                         *)
(* Every handler runs to completion (one action per handler); a setTimeout *)
(* callback is a separate action that fires some time after the handler    *)
(* that scheduled it.                                                      *)
(***************************************************************************)
EXTENDS Integers, FiniteSets, Sequences, TLC

(***************************************************************************)
(* Program constants.                                                      *)
(***************************************************************************)
totalSlides == 14

swipeThreshold == 50

(***************************************************************************)
(* Bounds of the model.                                                    *)
(***************************************************************************)
\* A handler that schedules timers is taken only while at most this many
\* timer callbacks are still pending.
MaxPendingTimers == 0

\* Arguments tried for goToSlide and for a menu item's data-goto lie in
\* 1 - ArgMargin .. totalSlides + ArgMargin.
ArgMargin == 1

(***************************************************************************)
(* State.                                                                  *)
(***************************************************************************)
VARIABLES
    currentSlide,        \* let currentSlide
    direction,           \* slidesContainer data-direction ("" before any move)
    active,              \* slides carrying class "active"
    exiting,             \* <<slide, class>>: exiting-left / exiting-right marks
    progressWidth,       \* progressBar.style.width as <<numerator, denominator>> percent
    currentSlideText,    \* currentSlideEl.textContent
    prevDisabled,        \* prevBtn.disabled
    nextDisabled,        \* nextBtn.disabled
    menuActive,          \* data-goto of the .slide-menu-item elements marked active
    clickRevealState,    \* const clickRevealState: slide -> count, Undefined if absent
    visible,             \* [data-delay] elements carrying class "visible"
    clickRevealIndicator,\* clickRevealIndicator carries class "visible"
    touchStartX,
    interactiveState,    \* slide 10 flags
    interactiveState11,  \* slide 11 flags
    selected,            \* cells carrying class "selected"
    justSelected,        \* cells carrying class "just-selected"
    shaking,             \* cells whose style.animation is the shake animation
    arrowVisible,        \* arrows carrying class "visible"
    resultVisible,       \* result boxes carrying class "visible"
    timers,              \* pending setTimeout callbacks
    dataDelay,           \* slide -> data-delay of its [data-delay] elements
    pendingCap,          \* how many callbacks may be pending when a handler
                         \* schedules more (bound of the model, fixed per run)
    bubbleVisible,       \* info cells whose .speech-bubble carries "visible"
    imageModalVisible,   \* imageModal carries class "visible"
    qrModalVisible,      \* qrModal carries class "visible"
    bodyOverflow,        \* document.body.style.overflow
    grayedOut,           \* optional-math boxes carrying class "grayed-out"
    escapeEffects,       \* what the keydown listeners did, in the order they
                         \* ran, when the step just taken was an Escape key
                         \* press; empty after any other step
    arrowPositioned,     \* arrows whose updateArrowPosition /
                         \* updateArrowPositionSlide11 ran in the step just
                         \* taken
    fullscreenElement,   \* document.fullscreenElement is not null
    fullscreenIconDisplay,     \* fullscreenIcon.style.display
    exitFullscreenIconDisplay, \* exitFullscreenIcon.style.display
    fullscreenOps,       \* requestFullscreen / exitFullscreen calls the host
                         \* has not settled yet
    fullscreenChangePending, \* a fullscreenchange event waits to be dispatched
    fullscreenErrorLogged \* console.log('Fullscreen error:', err) has run

navVars == <<currentSlide, direction, active, exiting, progressWidth,
             currentSlideText, prevDisabled, nextDisabled, menuActive>>

revealVars == <<clickRevealState, visible>>

touchVars == <<touchStartX>>

widget10Vars == <<interactiveState>>

widget11Vars == <<interactiveState11>>

widgetMarks == <<selected, justSelected, shaking, arrowVisible, resultVisible>>

\* Navigation, reveal sequencer, touch, widgets and timers.
coreVars == <<navVars, revealVars, clickRevealIndicator, touchVars,
              widget10Vars, widget11Vars, widgetMarks, timers>>

\* The document is not changed by the script.
docVars == <<dataDelay, pendingCap>>

\* The fullscreen state of the host and the two icons of the button.
fullscreenVars == <<fullscreenElement, fullscreenIconDisplay,
                    exitFullscreenIconDisplay, fullscreenOps,
                    fullscreenChangePending, fullscreenErrorLogged>>

\* What no handler of the slides, widgets and overlays writes.
restVars == <<docVars, fullscreenVars>>

modalVars == <<imageModalVisible, qrModalVisible, bodyOverflow>>

overlayVars == <<bubbleVisible, modalVars, grayedOut>>

vars == <<coreVars, restVars, overlayVars, escapeEffects, arrowPositioned>>

\* clickRevealState[s] of a slide never visited: a marker that is no count
\* and not one below a count.
Undefined == -2

\* A pending callback: what it does is fixed by kind and by the element
\* (slide, idx, name) its closure captured.
Timer(kind, slide, idx, name) ==
    [kind |-> kind, slide |-> slide, idx |-> idx, name |-> name]


(***************************************************************************)
(* The document (index.html is not part of the sources; the part of it the *)
(* script reads is fixed here).                                            *)
(***************************************************************************)
Slides == 1..totalSlides

SlideArgs == (1 - ArgMargin)..(totalSlides + ArgMargin)

\* The arguments that are no slide number (line 62).
InvalidArgs == SlideArgs \ Slides

\* Slides carrying data-click-reveal="true".
ClickRevealSlides == {10}

\* data-delay of the [data-delay] elements of each slide, in document order:
\* the document the presentation is loaded with.
StandardDelays ==
    [s \in Slides |-> CASE s = 1  -> <<1>>
                        [] s = 10 -> <<0>>
                        [] OTHER  -> <<>>]

\* A document whose click-reveal slide has three elements tagged 0..2 out of
\* document order, and whose first slide has three auto-animated elements, the
\* one tagged 0 being the last in document order.
RevealDelays ==
    [s \in Slides |-> CASE s = 1  -> <<1, 2, 0>>
                        [] s = 10 -> <<0, 2, 1>>
                        [] OTHER  -> <<>>]

\* data-delay of the [data-delay] elements of slide s, in document order.
DataDelay(s) == IF s \in DOMAIN dataDelay THEN dataDelay[s] ELSE <<>>

\* The [data-delay] elements of slide s: <<slide, index in document order>>,
\* the index counted from 0 as NodeList.forEach counts it.
Animatables(s) == {<<s, i>> : i \in 0..(Len(DataDelay(s)) - 1)}

DelayOf(el) == DataDelay(el[1])[el[2] + 1]

\* The .fag-cell.clickable cells of slide 10 and of slide 11 (data-fag).
Cells10 == {"fysikk1", "fysikk2", "r1", "r2"}

Cells11 == {"okonomi1", "okonomi2", "samfunn1", "samfunn2"}

\* data-requires of a cell; "" where the attribute is absent.
Requires(cell) ==
    CASE cell = "fysikk2"  -> "fysikk1"
      [] cell = "r2"       -> "r1"
      [] cell = "okonomi2" -> "okonomi1"
      [] cell = "samfunn2" -> "samfunn1"
      [] OTHER             -> ""

\* The .arrow-line / .fordypning-result pairs of each slide, named by the
\* class prefix of the arrow, with the two flags each one connects.
Arrows10 == {"fysikk", "matte"}

Arrows11 == {"okonomi", "samfunn"}

PairOf(arrow) ==
    CASE arrow = "fysikk"  -> <<"fysikk1", "fysikk2">>
      [] arrow = "matte"   -> <<"r1", "r2">>
      [] arrow = "okonomi" -> <<"okonomi1", "okonomi2">>
      [] arrow = "samfunn" -> <<"samfunn1", "samfunn2">>

\* screenX values a touch can report.
TouchXs == {0, 60}

(***************************************************************************)
(* Slide navigation.                                                       *)
(***************************************************************************)
\* Variant of OutOfRange: only the lower limit is tested.
OutOfRangeLowOnly(slideNum) == slideNum < 1

\* Variant of OutOfRange: slides counted from 0.
OutOfRangeFromZero(slideNum) == slideNum < 0 \/ slideNum > totalSlides

\* goToSlide, line 62: the early return.
OutOfRange(slideNum) == slideNum < 1 \/ slideNum > totalSlides

\* goToSlide, line 65.
DirectionTo(slideNum, previousSlide) ==
    IF slideNum > previousSlide THEN "next" ELSE "prev"

\* Variant of ExitClass: the two classes are swapped.
ExitClassSwapped(dir) == IF dir = "next" THEN "exiting-right" ELSE "exiting-left"

\* goToSlide, line 75.
ExitClass(dir) == IF dir = "next" THEN "exiting-left" ELSE "exiting-right"

\* Variant of ProgressOf: currentSlide / totalSlides.
ProgressOfCount(cur) == <<cur * 100, totalSlides>>

\* updateProgress: ((currentSlide - 1) / (totalSlides - 1)) * 100, kept as the
\* exact fraction <<numerator, denominator>>.
ProgressOf(cur) == <<(cur - 1) * 100, totalSlides - 1>>

\* updateNavButtons.
PrevDisabledOf(cur) == cur = 1

NextDisabledOf(cur) == cur = totalSlides

\* updateSlideMenuActive: the menu has one item per slide.
MenuActiveOf(cur) == {g \in Slides : g = cur}

(***************************************************************************)
(* Click-reveal helpers.                                                   *)
(***************************************************************************)
\* clickRevealState[s] || 0
CountOr0(crs, s) == IF crs[s] = Undefined THEN 0 ELSE crs[s]

\* isCurrentSlideClickReveal, with the current slide passed in.
IsClickReveal(cur) == cur \in ClickRevealSlides

\* allElementsRevealed.
AllElementsRevealed(cur, crs) ==
    CountOr0(crs, cur) >= Cardinality(Animatables(cur))

\* updateClickRevealIndicator: the class the indicator ends with.
IndicatorOf(cur, crs) == IsClickReveal(cur) /\ ~AllElementsRevealed(cur, crs)

\* Variant of ElementWithDelay: the element at index k of the NodeList.
ElementAtIndex(cur, k) == {el \in Animatables(cur) : el[2] = k}

\* The element revealNextElement / hideLastRevealedElement pick for ordinal k:
\* forEach keeps the last element of the slide whose data-delay is k.
ElementWithDelay(cur, k) ==
    LET hits == {el \in Animatables(cur) : DelayOf(el) = k}
    IN  {el \in hits : \A other \in hits : other[2] <= el[2]}

(***************************************************************************)
(* Dependency widgets: reset on leaving the slide.                         *)
(***************************************************************************)
\* Variant of LeavingSlide10: the reset is tied to moving forward.
LeavingSlide10Forward(cur, slideNum) == cur = 10 /\ slideNum > 10

\* The wrapper's tests, lines 854 and 858.
LeavingSlide10(cur, slideNum) == cur = 10 /\ slideNum # 10

\* Variant of LeavingSlide11: only a move back counts as leaving.
LeavingSlide11Backward(cur, slideNum) == cur = 11 /\ slideNum < 11

LeavingSlide11(cur, slideNum) == cur = 11 /\ slideNum # 11

\* resetInteractiveSlide10 / resetInteractiveSlide11: the flags.
ResetFlags(cells) == [c \in cells |-> FALSE]

\* resetInteractiveSlide10 / 11: the cells and arrows un-marked by a move from
\* cur to slideNum.
CellsReset(cur, slideNum) ==
    (IF LeavingSlide10(cur, slideNum) THEN Cells10 ELSE {})
        \cup (IF LeavingSlide11(cur, slideNum) THEN Cells11 ELSE {})

ArrowsReset(cur, slideNum) ==
    (IF LeavingSlide10(cur, slideNum) THEN Arrows10 ELSE {})
        \cup (IF LeavingSlide11(cur, slideNum) THEN Arrows11 ELSE {})

\* animateSlide(slide) does something: the slide is click-reveal (the counter
\* may be created) or has [data-delay] elements (timers are scheduled).
AnimateSlideActs(slide) == IsClickReveal(slide) \/ Animatables(slide) # {}

\* Line 93, setTimeout(() => animateSlide(activeSlide), 100): the callback is
\* kept only where it will do something.
AnimateTimer(slide) ==
    IF AnimateSlideActs(slide) THEN {Timer("animate", slide, 0, "")} ELSE {}

\* Whether a handler may schedule further timers (bound of the model).
TimerRoom == Cardinality(timers) <= pendingCap

(***************************************************************************)
(* What a step does to the bubbles, modals and math boxes when its event   *)
(* reaches none of their listeners, or only the document's click listener. *)
(***************************************************************************)
\* No listener of the bubbles, modals and math boxes runs, and the step is no
\* Escape key press.
OverlaysKept ==
    /\ UNCHANGED <<restVars, overlayVars>>
    /\ escapeEffects' = <<>>

\* The same, for a step that is no click on a clickable widget cell either.
OverlaysUntouched ==
    /\ OverlaysKept
    /\ arrowPositioned' = {}

\* The click bubbles up to the document with a target in no
\* .fag-cell.has-info: the listener of lines 1086-1090 runs
\* closeAllSpeechBubbles.
ClickReachesDocument ==
    /\ bubbleVisible' = {}
    /\ UNCHANGED <<restVars, modalVars, grayedOut>>
    /\ escapeEffects' = <<>>
    /\ arrowPositioned' = {}

(***************************************************************************)
(* goToSlide.  The functions below leave touchStartX to the handler that   *)
(* calls them.                                                             *)
(***************************************************************************)
\* Variant of ActiveAfter: the forEach of line 84 is left out.
ActiveAdded(slideNum) == active \cup {slideNum}

\* Lines 84-89: 'active' is removed from every slide and added to the slide
\* of the new index.
ActiveAfter(slideNum) == {slideNum}

\* function goToSlide of lines 61-97, kept as originalGoToSlide at line 851.
OriginalGoToSlide(slideNum) ==
    LET previousSlide == currentSlide
        moved     == ~OutOfRange(slideNum)
        dir       == DirectionTo(slideNum, previousSlide)
        addExit   == moved /\ previousSlide # slideNum
    IN  /\ moved => TimerRoom
        /\ currentSlide' = IF moved THEN slideNum ELSE currentSlide
        /\ direction' = IF moved THEN dir ELSE direction
        /\ exiting' =
               IF addExit THEN exiting \cup {<<previousSlide, ExitClass(dir)>>}
               ELSE exiting
        /\ active' = IF moved THEN ActiveAfter(slideNum) ELSE active
        /\ timers' =
               timers
               \cup (IF addExit
                     THEN {Timer("exit", previousSlide, 0, ExitClass(dir))}
                     ELSE {})
               \cup (IF moved THEN AnimateTimer(slideNum) ELSE {})
        /\ progressWidth' = IF moved THEN ProgressOf(slideNum) ELSE progressWidth
        /\ currentSlideText' = IF moved THEN slideNum ELSE currentSlideText
        /\ prevDisabled' = IF moved THEN PrevDisabledOf(slideNum) ELSE prevDisabled
        /\ nextDisabled' = IF moved THEN NextDisabledOf(slideNum) ELSE nextDisabled

\* goToSlide as reassigned at lines 852-866: reset of the widget being left,
\* originalGoToSlide, updateSlideMenuActive, updateClickRevealIndicator.
\* Every caller (nextSlide, prevSlide, the key and menu handlers) reads the
\* binding when it runs, which is after the reassignment.
\* The resets of lines 853-858 test the slide index as it is before
\* originalGoToSlide assigns it: the unprimed currentSlide below.
GoToSlide(slideNum) ==
    /\ OriginalGoToSlide(slideNum)
    /\ interactiveState' =
           IF LeavingSlide10(currentSlide, slideNum)
           THEN ResetFlags(Cells10) ELSE interactiveState
    /\ interactiveState11' =
           IF LeavingSlide11(currentSlide, slideNum)
           THEN ResetFlags(Cells11) ELSE interactiveState11
    /\ selected' = selected \ CellsReset(currentSlide, slideNum)
    /\ justSelected' = justSelected \ CellsReset(currentSlide, slideNum)
    /\ arrowVisible' = arrowVisible \ ArrowsReset(currentSlide, slideNum)
    /\ resultVisible' = resultVisible \ ArrowsReset(currentSlide, slideNum)
    /\ menuActive' = MenuActiveOf(currentSlide')
    /\ clickRevealIndicator' = IndicatorOf(currentSlide', clickRevealState)
    /\ UNCHANGED <<revealVars, shaking>>

\* Variant of NextSlide: the call reaches the function of lines 61-97 and not
\* the function assigned at line 852.
NextSlideOriginal ==
    /\ OriginalGoToSlide(currentSlide + 1)
    /\ UNCHANGED <<menuActive, revealVars, clickRevealIndicator, widget10Vars,
                   widget11Vars, widgetMarks>>

\* nextSlide.
NextSlide == GoToSlide(currentSlide + 1)


(***************************************************************************)
(* Click-reveal steps.                                                     *)
(***************************************************************************)
\* Lines 319 and 339: the counters once revealNextElement has revealed an
\* element of slide cur.
CounterRevealed(crs, cur) == [crs EXCEPT ![cur] = CountOr0(crs, cur) + 1]

\* Lines 326-337: the visible elements once revealNextElement has revealed an
\* element of slide cur.
VisibleRevealed(crs, vis, cur) ==
    vis \cup ElementWithDelay(cur, CountOr0(crs, cur))

\* Lines 355 and 374: the counters once hideLastRevealedElement has hidden an
\* element of slide cur.
CounterHidden(crs, cur) == [crs EXCEPT ![cur] = CountOr0(crs, cur) - 1]

\* Variant of VisibleHidden: the element at the counter is hidden instead of
\* the one below it.
VisibleHiddenAtCounter(crs, vis, cur) ==
    vis \ ElementWithDelay(cur, CountOr0(crs, cur))

\* Lines 361-372: the visible elements once hideLastRevealedElement has hidden
\* an element of slide cur.
VisibleHidden(crs, vis, cur) ==
    vis \ ElementWithDelay(cur, CountOr0(crs, cur) - 1)

\* Variant of RevealNextElement: the test of lines 322-324 is left out.
RevealNextElementUnchecked ==
    LET currentIndex == CountOr0(clickRevealState, currentSlide)
    IN  /\ visible' = visible \cup ElementWithDelay(currentSlide, currentIndex)
        /\ clickRevealState' =
               [clickRevealState EXCEPT ![currentSlide] = currentIndex + 1]

\* revealNextElement on the current slide (its callers have checked that the
\* slide is click-reveal and not fully revealed; the function itself returns
\* false without a change when the counter has reached the element count).
RevealNextElement ==
    LET currentIndex == CountOr0(clickRevealState, currentSlide)
    IN  IF currentIndex >= Cardinality(Animatables(currentSlide))
        THEN UNCHANGED revealVars
        ELSE /\ visible' = VisibleRevealed(clickRevealState, visible, currentSlide)
             /\ clickRevealState' = CounterRevealed(clickRevealState, currentSlide)

\* What revealNextElement returns (lines 322-324 and 340): true if an element
\* was left to reveal.
RevealNextElementReturns ==
    CountOr0(clickRevealState, currentSlide)
        < Cardinality(Animatables(currentSlide))

\* hideLastRevealedElement returns true: the active slide is click-reveal and
\* its counter is above 0.
CanHideLast ==
    /\ IsClickReveal(currentSlide)
    /\ CountOr0(clickRevealState, currentSlide) > 0

\* Variant of HideLastRevealedElement: hides the element at the counter
\* instead of the one below it.
HideElementAtCounter ==
    LET currentIndex == CountOr0(clickRevealState, currentSlide)
    IN  /\ visible' = visible \ ElementWithDelay(currentSlide, currentIndex)
        /\ clickRevealState' =
               [clickRevealState EXCEPT ![currentSlide] = currentIndex - 1]

\* hideLastRevealedElement, when it returns true.
HideLastRevealedElement ==
    /\ visible' = VisibleHidden(clickRevealState, visible, currentSlide)
    /\ clickRevealState' = CounterHidden(clickRevealState, currentSlide)

\* Variant of PrevSlide: the backward inputs follow the rule of the forward
\* ones, an element is hidden before the slide is left.
PrevSlideAfterHiding ==
    IF CanHideLast
    THEN /\ HideLastRevealedElement
         /\ UNCHANGED <<navVars, clickRevealIndicator, widget10Vars,
                        widget11Vars, widgetMarks, timers>>
    ELSE GoToSlide(currentSlide - 1)

\* prevSlide.
PrevSlide == GoToSlide(currentSlide - 1)

\* The forward decision shared by handleKeydown (lines 239-243) and
\* handleSwipe (lines 449-453): a reveal step, else nextSlide.
RevealOrAdvance ==
    IF IsClickReveal(currentSlide)
           /\ ~AllElementsRevealed(currentSlide, clickRevealState)
    THEN /\ RevealNextElement
         /\ UNCHANGED <<navVars, clickRevealIndicator, widget10Vars,
                        widget11Vars, widgetMarks, timers>>
    ELSE NextSlide

\* A call of revealNextElement() on a click-reveal slide, whatever the counter
\* (the handlers call it only while an element is left to reveal).
RevealNextElementCall ==
    /\ IsClickReveal(currentSlide)
    /\ RevealNextElement
    /\ UNCHANGED <<navVars, clickRevealIndicator, touchVars, widget10Vars,
                   widget11Vars, widgetMarks, timers>>
    /\ OverlaysUntouched

(***************************************************************************)
(* Keyboard, buttons, menu, container click.                               *)
(***************************************************************************)
\* A direct call goToSlide(slideNum). Every slide number is passed by a menu
\* item; the calls taken on their own are those with the other arguments.
GoToSlideCall(slideNum) ==
    GoToSlide(slideNum) /\ UNCHANGED touchVars /\ OverlaysUntouched

\* handleKeydown: ArrowRight, ArrowDown, Space, PageDown.
KeyForward == RevealOrAdvance /\ UNCHANGED touchVars /\ OverlaysUntouched

\* handleKeydown: ArrowLeft, ArrowUp, PageUp.
KeyBackward == PrevSlide /\ UNCHANGED touchVars /\ OverlaysUntouched

\* handleKeydown: Home, End.
KeyHome == GoToSlide(1) /\ UNCHANGED touchVars /\ OverlaysUntouched

KeyEnd ==
    GoToSlide(totalSlides) /\ UNCHANGED touchVars /\ OverlaysUntouched

\* handleKeydown: Escape (lines 264-271).
HandleKeydownEscape ==
    IF CanHideLast
    THEN /\ HideLastRevealedElement
         /\ clickRevealIndicator' = IndicatorOf(currentSlide, clickRevealState')
         /\ UNCHANGED <<navVars, touchVars, widget10Vars, widget11Vars,
                        widgetMarks, timers>>
    ELSE UNCHANGED coreVars

\* What each keydown listener of the document does on Escape, as recorded in
\* escapeEffects: handleKeydown (registered at line 490), the listener of
\* initSpeechBubbles (lines 1093-1097), of the image modal (lines 1208-1212)
\* and of the QR modal (lines 1261-1265).
EffectsOfHandleKeydown ==
    IF CanHideLast THEN <<"hide", "preventDefault">> ELSE <<>>

EffectsOfBubbleListener ==
    IF bubbleVisible # {} THEN <<"closeBubbles">> ELSE <<>>

EffectsOfImageListener ==
    IF imageModalVisible THEN <<"closeImageModal">> ELSE <<>>

EffectsOfQrListener ==
    IF qrModalVisible THEN <<"closeQrModal">> ELSE <<>>

\* An Escape key press: the keydown listeners of the document run in the
\* order they were registered.
KeyEscape ==
    /\ HandleKeydownEscape
    /\ bubbleVisible' = {}
    /\ imageModalVisible' = FALSE
    /\ qrModalVisible' = FALSE
    /\ bodyOverflow' =
           IF imageModalVisible \/ qrModalVisible THEN "" ELSE bodyOverflow
    /\ escapeEffects' =
           EffectsOfHandleKeydown \o EffectsOfBubbleListener
               \o EffectsOfImageListener \o EffectsOfQrListener
    /\ UNCHANGED <<restVars, grayedOut>>
    /\ arrowPositioned' = {}

\* Click listeners of prevBtn and nextBtn; a disabled button dispatches no click.
PrevBtnClick ==
    ~prevDisabled /\ PrevSlide /\ UNCHANGED touchVars /\ ClickReachesDocument

NextBtnClick ==
    ~nextDisabled /\ NextSlide /\ UNCHANGED touchVars /\ ClickReachesDocument

\* Click on the slide menu item whose data-goto is g (initSlideMenu).
MenuItemClick(g) ==
    /\ IF g >= 1 /\ g <= totalSlides
       THEN GoToSlide(g) /\ UNCHANGED touchVars
       ELSE UNCHANGED coreVars
    /\ ClickReachesDocument

\* handleSlideContainerClick, the target being no link, button, input,
\* clickable cell or info cell: what the handler itself does.
SlideContainerReveal ==
    IF IsClickReveal(currentSlide)
           /\ ~AllElementsRevealed(currentSlide, clickRevealState)
    THEN /\ RevealNextElement
         /\ clickRevealIndicator' = IndicatorOf(currentSlide, clickRevealState')
         /\ UNCHANGED <<navVars, touchVars, widget10Vars, widget11Vars,
                        widgetMarks, timers>>
    ELSE UNCHANGED coreVars

\* A click on the background of the active slide: handleSlideContainerClick,
\* then the click listener of the document.
HandleSlideContainerClick ==
    /\ SlideContainerReveal
    /\ ClickReachesDocument

(***************************************************************************)
(* Touch.                                                                  *)
(***************************************************************************)
HandleTouchStart(x) ==
    /\ touchStartX' = x
    /\ OverlaysUntouched
    /\ UNCHANGED <<navVars, revealVars, clickRevealIndicator, widget10Vars,
                   widget11Vars, widgetMarks, timers>>

\* Variant of IsSwipe: a displacement of exactly the threshold counts.
IsSwipeFromThreshold(diff) == (IF diff < 0 THEN -diff ELSE diff) >= swipeThreshold

\* Math.abs(diff) > swipeThreshold
IsSwipe(diff) == (IF diff < 0 THEN -diff ELSE diff) > swipeThreshold

\* handleSwipe, diff being touchStartX - touchEndX.
HandleSwipe(diff) ==
    IF IsSwipe(diff)
    THEN IF diff > 0 THEN RevealOrAdvance ELSE PrevSlide
    ELSE UNCHANGED <<navVars, revealVars, clickRevealIndicator, widget10Vars,
                     widget11Vars, widgetMarks, timers>>

\* handleTouchEnd: touchEndX is written here and read only by the handleSwipe
\* call that follows, so it is carried as x and is no variable of the model.
HandleTouchEnd(x) ==
    /\ UNCHANGED touchStartX
    /\ HandleSwipe(touchStartX - x)
    /\ OverlaysUntouched


(***************************************************************************)
(* Dependency widgets: clicks.                                             *)
(***************************************************************************)
\* Variant of Rejected: the negation of the prerequisite test is lost.
RejectedInverted(cell, state) == Requires(cell) # "" /\ state[Requires(cell)]

\* Variant of Rejected: no click is ever rejected.
RejectedNever(cell, state) == FALSE

\* handleFagClick line 688 / handleFagClickSlide11 line 906:
\* requires && !state[requires]
Rejected(cell, state) == Requires(cell) # "" /\ ~state[Requires(cell)]

\* Variant of Dependents: the cascade is left out.
DependentsNone(fagId, state) == {}

\* Variant of Dependents: every other key of the state object.
DependentsEveryKey(fagId, state) == DOMAIN state \ {fagId}

\* Lines 704-710 / 921-927: the keys whose cell declares fagId as its
\* data-requires.
Dependents(fagId, state) == {key \in DOMAIN state : Requires(key) = fagId}

\* Lines 698-720 / 915-936: the flags after an accepted click on fagId.
ToggleFlags(fagId, state) ==
    IF state[fagId]
    THEN [key \in DOMAIN state |->
             IF key = fagId \/ key \in Dependents(fagId, state)
             THEN FALSE ELSE state[key]]
    ELSE [state EXCEPT ![fagId] = TRUE]

\* Lines 701-708 / 918-925: the cells an accepted click on a selected fagId
\* un-marks.
Unmarked(fagId, state) == {fagId} \cup Dependents(fagId, state)

\* Lines 737, 754 / 953, 969: both flags of the arrow's pair are true.
Complete(arrow, state) == state[PairOf(arrow)[1]] /\ state[PairOf(arrow)[2]]

\* Variant of UpdateFordypningVisuals: the else branches that remove
\* "visible" are left out.
UpdateFordypningVisualsAddOnly(marked, arrows, state) ==
    marked \cup {a \in arrows : Complete(a, state)}

\* updateFordypningVisuals / updateFordypningVisualsSlide11: the arrows (and
\* result boxes) of the slide carrying "visible" afterwards.
UpdateFordypningVisuals(marked, arrows, state) ==
    (marked \ {a \in arrows : ~Complete(a, state)})
        \cup {a \in arrows : Complete(a, state)}

\* Variant of ArrowsPositioned: the position is computed on every update of
\* a complete pair.
ArrowsPositionedEveryUpdate(marked, arrows, state) ==
    {a \in arrows : Complete(a, state)}

\* Lines 738-741 / 955-958: the arrows whose position the update computes,
\* those of a complete pair that do not carry "visible" yet.
ArrowsPositioned(marked, arrows, state) ==
    {a \in arrows : Complete(a, state) /\ a \notin marked}

\* The body shared by handleFagClick and handleFagClickSlide11, on the flags
\* `state` of the slide the cell is on.
FagClick(cell, state, slide, arrows) ==
    IF Rejected(cell, state)
    THEN /\ TimerRoom
         /\ shaking' = shaking \cup {cell}
         /\ timers' = timers \cup {Timer("shake", slide, 0, cell)}
         /\ arrowPositioned' = {}
         /\ UNCHANGED <<selected, justSelected, arrowVisible, resultVisible>>
    ELSE /\ state[cell] \/ TimerRoom
         /\ selected' =
                IF state[cell] THEN selected \ Unmarked(cell, state)
                ELSE selected \cup {cell}
         /\ justSelected' =
                IF state[cell] THEN justSelected \ Unmarked(cell, state)
                ELSE justSelected \cup {cell}
         /\ timers' =
                IF state[cell] THEN timers
                ELSE timers \cup {Timer("just", slide, 0, cell)}
         /\ arrowVisible' =
                UpdateFordypningVisuals(arrowVisible, arrows, ToggleFlags(cell, state))
         /\ resultVisible' =
                UpdateFordypningVisuals(resultVisible, arrows, ToggleFlags(cell, state))
         /\ arrowPositioned' =
                ArrowsPositioned(arrowVisible, arrows, ToggleFlags(cell, state))
         /\ UNCHANGED shaking

\* Click on a clickable cell of slide 10; only the active slide is on screen.
HandleFagClick(cell) ==
    /\ currentSlide = 10
    /\ FagClick(cell, interactiveState, 10, Arrows10)
    /\ interactiveState' =
           IF Rejected(cell, interactiveState) THEN interactiveState
           ELSE ToggleFlags(cell, interactiveState)
    /\ UNCHANGED <<navVars, revealVars, clickRevealIndicator, touchVars,
                   widget11Vars>>
    /\ OverlaysKept

\* Click on a clickable cell of slide 11.
HandleFagClickSlide11(cell) ==
    /\ currentSlide = 11
    /\ FagClick(cell, interactiveState11, 11, Arrows11)
    /\ interactiveState11' =
           IF Rejected(cell, interactiveState11) THEN interactiveState11
           ELSE ToggleFlags(cell, interactiveState11)
    /\ UNCHANGED <<navVars, revealVars, clickRevealIndicator, touchVars,
                   widget10Vars>>
    /\ OverlaysKept

(***************************************************************************)
(* Speech bubbles, optional math boxes, image modal, QR modal.             *)
(***************************************************************************)
\* The .fag-cell.has-info cells, each with an info icon, a speech bubble and
\* a close button; they sit on slide 11.
InfoCells == {"spansk1", "spansk2"}

InfoSlide == 11

\* The .math-box.optional-math boxes; they sit on slide 6.
MathBoxes == {"matte"}

MathSlide == 6

\* The slide holding a [data-modal-image] image and the one holding
\* #qrCodeTrigger.
ImageSlide == 12

QrSlide == 14

\* Variant of ToggleSpeechBubble: the other bubbles are not closed first.
ToggleSpeechBubbleKeepOthers(cell) ==
    IF cell \in bubbleVisible THEN bubbleVisible \ {cell}
    ELSE bubbleVisible \cup {cell}

\* toggleSpeechBubble: the bubbles visible afterwards.
ToggleSpeechBubble(cell) ==
    IF cell \in bubbleVisible THEN bubbleVisible \ {cell}
    ELSE {cell}

\* A click whose listener calls stopPropagation and touches the bubbles only.
BubbleOnly ==
    /\ UNCHANGED <<coreVars, restVars, modalVars, grayedOut>>
    /\ escapeEffects' = <<>>
    /\ arrowPositioned' = {}

\* Click on the info icon of a cell (lines 1062-1065).
InfoIconClick(cell) ==
    /\ currentSlide = InfoSlide
    /\ bubbleVisible' = ToggleSpeechBubble(cell)
    /\ BubbleOnly

\* Click on the info cell itself, e.target === cell (lines 1068-1074).
InfoCellClick(cell) ==
    /\ currentSlide = InfoSlide
    /\ bubbleVisible' = ToggleSpeechBubble(cell)
    /\ BubbleOnly

\* Click on the text of an open speech bubble: the cell listener does nothing
\* (the target is not the cell), handleSlideContainerClick returns at
\* closest('.has-info'), and so does the click listener of the document.
SpeechBubbleTextClick(cell) ==
    /\ currentSlide = InfoSlide
    /\ cell \in bubbleVisible
    /\ UNCHANGED bubbleVisible
    /\ BubbleOnly

\* Click on the close button of a speech bubble (lines 1078-1081).
BubbleCloseClick(cell) ==
    /\ currentSlide = InfoSlide
    /\ cell \in bubbleVisible
    /\ bubbleVisible' = bubbleVisible \ {cell}
    /\ BubbleOnly

\* Click on an optional math box (lines 1146-1149): stopPropagation, then
\* the class grayed-out is toggled.
MathBoxClick(box) ==
    /\ currentSlide = MathSlide
    /\ grayedOut' = IF box \in grayedOut THEN grayedOut \ {box}
                    ELSE grayedOut \cup {box}
    /\ UNCHANGED <<coreVars, restVars, bubbleVisible, modalVars>>
    /\ escapeEffects' = <<>>
    /\ arrowPositioned' = {}

\* Click on #qrCodeTrigger (lines 1243-1247): preventDefault,
\* stopPropagation, openQrModal.
QrTriggerClick ==
    /\ currentSlide = QrSlide
    /\ qrModalVisible' = TRUE
    /\ bodyOverflow' = "hidden"
    /\ UNCHANGED <<coreVars, restVars, bubbleVisible, imageModalVisible, grayedOut>>
    /\ escapeEffects' = <<>>
    /\ arrowPositioned' = {}

\* Click on a [data-modal-image] image (lines 1188-1190): openImageModal; the
\* click goes on to handleSlideContainerClick and to the document.
ModalImageClick ==
    /\ currentSlide = ImageSlide
    /\ SlideContainerReveal
    /\ imageModalVisible' = TRUE
    /\ bodyOverflow' = "hidden"
    /\ bubbleVisible' = {}
    /\ UNCHANGED <<restVars, qrModalVisible, grayedOut>>
    /\ escapeEffects' = <<>>
    /\ arrowPositioned' = {}

\* closeImageModal (lines 1180-1184).
CloseImageModal ==
    /\ imageModalVisible' = FALSE
    /\ bodyOverflow' = ""
    /\ UNCHANGED qrModalVisible

\* closeQrModal (lines 1234-1238).
CloseQrModal ==
    /\ qrModalVisible' = FALSE
    /\ bodyOverflow' = ""
    /\ UNCHANGED imageModalVisible

\* A click inside an open modal: no listener of the slides runs, and the
\* click listener of the document closes the speech bubbles.
ModalClickReachesDocument ==
    /\ bubbleVisible' = {}
    /\ UNCHANGED <<coreVars, restVars, grayedOut>>
    /\ escapeEffects' = <<>>
    /\ arrowPositioned' = {}

\* Click on #imageModalClose (line 1195).
ImageModalCloseClick ==
    /\ imageModalVisible
    /\ CloseImageModal
    /\ ModalClickReachesDocument

\* Click on the backdrop, e.target === imageModal (lines 1200-1204).
ImageModalBackdropClick ==
    /\ imageModalVisible
    /\ CloseImageModal
    /\ ModalClickReachesDocument

\* Click on #qrModalClose (line 1252).
QrModalCloseClick ==
    /\ qrModalVisible
    /\ CloseQrModal
    /\ ModalClickReachesDocument

\* Click on .qr-modal-backdrop (line 1257).
QrModalBackdropClick ==
    /\ qrModalVisible
    /\ CloseQrModal
    /\ ModalClickReachesDocument

(***************************************************************************)
(* Fullscreen.                                                             *)
(***************************************************************************)
\* A step of the fullscreen machinery alone.
FullscreenOnly ==
    /\ UNCHANGED <<coreVars, docVars, overlayVars>>
    /\ escapeEffects' = <<>>
    /\ arrowPositioned' = {}

\* toggleFullscreen (lines 194-202): requestFullscreen() if there is no
\* fullscreen element, exitFullscreen() otherwise; the host settles the call
\* later.
ToggleFullscreen ==
    /\ fullscreenOps' =
           fullscreenOps \cup {IF ~fullscreenElement THEN "request" ELSE "exit"}
    /\ UNCHANGED <<fullscreenElement, fullscreenIconDisplay,
                   exitFullscreenIconDisplay, fullscreenChangePending,
                   fullscreenErrorLogged>>

\* handleKeydown: f, F (lines 259-263).
KeyF ==
    /\ ToggleFullscreen
    /\ FullscreenOnly

\* Click on fullscreenBtn (line 486); the click goes on to the document.
FullscreenBtnClick ==
    /\ ToggleFullscreen
    /\ bubbleVisible' = {}
    /\ UNCHANGED <<coreVars, docVars, modalVars, grayedOut>>
    /\ escapeEffects' = <<>>
    /\ arrowPositioned' = {}

\* The host grants a requestFullscreen() call: there is a fullscreen element
\* and a fullscreenchange event is due.
RequestGranted ==
    /\ "request" \in fullscreenOps
    /\ fullscreenOps' = fullscreenOps \ {"request"}
    /\ fullscreenElement' = TRUE
    /\ fullscreenChangePending' = (fullscreenChangePending \/ ~fullscreenElement)
    /\ UNCHANGED <<fullscreenIconDisplay, exitFullscreenIconDisplay,
                   fullscreenErrorLogged>>
    /\ FullscreenOnly

\* The host rejects a requestFullscreen() call: the catch callback of lines
\* 196-198 logs the error.
RequestRejected ==
    /\ "request" \in fullscreenOps
    /\ fullscreenOps' = fullscreenOps \ {"request"}
    /\ fullscreenErrorLogged' = TRUE
    /\ UNCHANGED <<fullscreenElement, fullscreenIconDisplay,
                   exitFullscreenIconDisplay, fullscreenChangePending>>
    /\ FullscreenOnly

\* The host carries out an exitFullscreen() call (line 200).
ExitCompleted ==
    /\ "exit" \in fullscreenOps
    /\ fullscreenOps' = fullscreenOps \ {"exit"}
    /\ fullscreenElement' = FALSE
    /\ fullscreenChangePending' = (fullscreenChangePending \/ fullscreenElement)
    /\ UNCHANGED <<fullscreenIconDisplay, exitFullscreenIconDisplay,
                   fullscreenErrorLogged>>
    /\ FullscreenOnly

\* Variant of UpdateFullscreenButton: the two icons are swapped.
UpdateFullscreenButtonSwapped ==
    /\ fullscreenIconDisplay' = IF fullscreenElement THEN "block" ELSE "none"
    /\ exitFullscreenIconDisplay' = IF fullscreenElement THEN "none" ELSE "block"

\* updateFullscreenButton (lines 207-215).
UpdateFullscreenButton ==
    /\ fullscreenIconDisplay' = IF fullscreenElement THEN "none" ELSE "block"
    /\ exitFullscreenIconDisplay' = IF fullscreenElement THEN "block" ELSE "none"

\* The fullscreenchange listener of line 487 runs.
FullscreenChange ==
    /\ fullscreenChangePending
    /\ fullscreenChangePending' = FALSE
    /\ UpdateFullscreenButton
    /\ UNCHANGED <<fullscreenElement, fullscreenOps, fullscreenErrorLogged>>
    /\ FullscreenOnly

(***************************************************************************)
(* Timer callbacks.                                                        *)
(***************************************************************************)
\* Variant of AnimateSlide: the test of line 151 is left out, the counter is
\* set to 0 on every entry.
AnimateSlideOverwrites(slide) ==
    IF IsClickReveal(slide)
    THEN /\ clickRevealState' = [clickRevealState EXCEPT ![slide] = 0]
         /\ UNCHANGED visible
    ELSE UNCHANGED revealVars

\* animateSlide(slide): the counter and the timers it leaves.
AnimateSlide(slide) ==
    IF IsClickReveal(slide)
    THEN /\ clickRevealState' =
                IF clickRevealState[slide] = Undefined
                THEN [clickRevealState EXCEPT ![slide] = 0]
                ELSE clickRevealState
         /\ UNCHANGED visible
    ELSE UNCHANGED revealVars

\* Variant of AnimateTimers: the early return of the click-reveal branch is
\* lost, so every slide is auto-animated.
AnimateTimersEverySlide(slide) ==
    {Timer("visible", el[1], el[2], "") : el \in Animatables(slide)}

\* Lines 158-163: the timers animateSlide(slide) schedules.
AnimateTimers(slide) ==
    IF IsClickReveal(slide) THEN {}
    ELSE {Timer("visible", el[1], el[2], "") : el \in Animatables(slide)}

\* Lines 79-81: exitingSlide.classList.remove(exitClass).
ExitTimerFires(t) ==
    /\ t.kind = "exit"
    /\ exiting' = exiting \ {<<t.slide, t.name>>}
    /\ timers' = timers \ {t}
    /\ UNCHANGED <<currentSlide, direction, active, progressWidth,
                   currentSlideText, prevDisabled, nextDisabled, menuActive,
                   revealVars, clickRevealIndicator, touchVars, widget10Vars,
                   widget11Vars, widgetMarks>>
    /\ OverlaysUntouched

\* Line 93: animateSlide(activeSlide), and lines 47-50: animateSlide of the
\* slide that is active when the callback runs.
AnimateTimerFires(t) ==
    /\ t.kind \in {"animate", "init"}
    /\ LET slide == IF t.kind = "init" THEN currentSlide ELSE t.slide
       IN  /\ AnimateSlide(slide)
           /\ timers' = (timers \ {t}) \cup AnimateTimers(slide)
    /\ UNCHANGED <<navVars, clickRevealIndicator, touchVars, widget10Vars,
                   widget11Vars, widgetMarks>>
    /\ OverlaysUntouched

\* Variant of StaggerOrdinal: the data-delay value is used as it is.
StaggerOrdinalAsTagged(el) == DelayOf(el)

\* Line 158, parseInt(el.dataset.delay) || index: a data-delay of 0 is falsy
\* and gives way to the element's index in document order.
StaggerOrdinal(el) == IF DelayOf(el) # 0 THEN DelayOf(el) ELSE el[2]

\* Line 161: the timeout of the element's callback, delay * 150 + 100 ms.
StaggerMs(el) == StaggerOrdinal(el) * 150 + 100

\* Callbacks scheduled by one animateSlide call run in the order of their
\* timeouts, and callbacks of equal timeout in the order they were scheduled
\* (document order): u runs before t.
RunsBefore(u, t) ==
    \/ StaggerMs(<<u.slide, u.idx>>) < StaggerMs(<<t.slide, t.idx>>)
    \/ /\ StaggerMs(<<u.slide, u.idx>>) = StaggerMs(<<t.slide, t.idx>>)
       /\ u.idx < t.idx

\* Lines 160-162: el.classList.add('visible').
VisibleTimerFires(t) ==
    /\ t.kind = "visible"
    /\ \A u \in timers :
           (u.kind = "visible" /\ u.slide = t.slide) => ~RunsBefore(u, t)
    /\ visible' = visible \cup {<<t.slide, t.idx>>}
    /\ timers' = timers \ {t}
    /\ UNCHANGED <<navVars, clickRevealState, clickRevealIndicator, touchVars,
                   widget10Vars, widget11Vars, widgetMarks>>
    /\ OverlaysUntouched

\* Lines 717-719 / 933-935: cell.classList.remove('just-selected').
JustSelectedTimerFires(t) ==
    /\ t.kind = "just"
    /\ justSelected' = justSelected \ {t.name}
    /\ timers' = timers \ {t}
    /\ UNCHANGED <<navVars, revealVars, clickRevealIndicator, touchVars,
                   widget10Vars, widget11Vars, selected, shaking, arrowVisible,
                   resultVisible>>
    /\ OverlaysUntouched

\* Lines 691-693 / 908-910: cell.style.animation = ''.
ShakeTimerFires(t) ==
    /\ t.kind = "shake"
    /\ shaking' = shaking \ {t.name}
    /\ timers' = timers \ {t}
    /\ UNCHANGED <<navVars, revealVars, clickRevealIndicator, touchVars,
                   widget10Vars, widget11Vars, selected, justSelected,
                   arrowVisible, resultVisible>>
    /\ OverlaysUntouched

(***************************************************************************)
(* The state once the DOMContentLoaded listener has run.                   *)
(***************************************************************************)
LoadedWith(delays, cap) ==
    /\ currentSlide = 1
    /\ direction = ""
    /\ active = {1}
    /\ exiting = {}
    /\ progressWidth = ProgressOf(1)
    /\ currentSlideText = 1
    /\ prevDisabled = PrevDisabledOf(1)
    /\ nextDisabled = NextDisabledOf(1)
    /\ menuActive = MenuActiveOf(1)
    /\ clickRevealState = [s \in Slides |-> Undefined]
    /\ visible = {}
    /\ clickRevealIndicator = FALSE
    /\ touchStartX = 0
    /\ interactiveState = ResetFlags(Cells10)
    /\ interactiveState11 = ResetFlags(Cells11)
    /\ selected = {}
    /\ justSelected = {}
    /\ shaking = {}
    /\ arrowVisible = {}
    /\ resultVisible = {}
    /\ timers = {Timer("init", 0, 0, "")}
    /\ dataDelay = delays
    /\ pendingCap = cap
    /\ bubbleVisible = {}
    /\ imageModalVisible = FALSE
    /\ qrModalVisible = FALSE
    /\ bodyOverflow = ""
    /\ grayedOut = {}
    /\ escapeEffects = <<>>
    /\ arrowPositioned = {}
    /\ fullscreenElement = FALSE
    /\ fullscreenIconDisplay = ""
    /\ exitFullscreenIconDisplay = ""
    /\ fullscreenOps = {}
    /\ fullscreenChangePending = FALSE
    /\ fullscreenErrorLogged = FALSE

\* The page loaded with the given document, handlers waiting for pending
\* callbacks as far as the bound asks.
Loaded(delays) == LoadedWith(delays, MaxPendingTimers)

Init == Loaded(StandardDelays)

\* The page loaded with the document of RevealDelays.
InitReveal == Loaded(RevealDelays)


Next ==
    \/ \E slideNum \in InvalidArgs : GoToSlideCall(slideNum)
    \/ KeyForward
    \/ KeyBackward
    \/ KeyHome
    \/ KeyEnd
    \/ KeyEscape
    \/ PrevBtnClick
    \/ NextBtnClick
    \/ \E g \in SlideArgs : MenuItemClick(g)
    \/ HandleSlideContainerClick
    \/ \E x \in TouchXs : HandleTouchStart(x)
    \/ \E x \in TouchXs : HandleTouchEnd(x)
    \/ \E cell \in Cells10 : HandleFagClick(cell)
    \/ \E cell \in Cells11 : HandleFagClickSlide11(cell)
    \/ \E t \in timers : ExitTimerFires(t)
    \/ \E t \in timers : AnimateTimerFires(t)
    \/ \E t \in timers : VisibleTimerFires(t)
    \/ \E t \in timers : JustSelectedTimerFires(t)
    \/ \E t \in timers : ShakeTimerFires(t)

Spec == Init /\ [][Next]_vars

\* The reveal sequencer on the document of RevealDelays: slides are changed
\* one at a time (keys, buttons, swipes), elements are revealed and hidden.
NextReveal ==
    \/ KeyForward
    \/ KeyBackward
    \/ KeyEscape
    \/ PrevBtnClick
    \/ NextBtnClick
    \/ HandleSlideContainerClick
    \/ RevealNextElementCall
    \/ \E x \in TouchXs : HandleTouchStart(x)
    \/ \E x \in TouchXs : HandleTouchEnd(x)
    \/ \E t \in timers : ExitTimerFires(t)
    \/ \E t \in timers : AnimateTimerFires(t)
    \/ \E t \in timers : VisibleTimerFires(t)

SpecReveal == InitReveal /\ [][NextReveal]_vars

\* The presentation with its overlays: one click-reveal element on slide 10,
\* keyboard navigation, clicks on the slide background, on the widget of
\* slide 11, on the info cells, math boxes, modal image and QR trigger.
OverlayDelays ==
    [s \in Slides |-> IF s = 10 THEN <<0>> ELSE <<>>]

InitOverlay == Loaded(OverlayDelays)

NextOverlay ==
    \/ KeyForward
    \/ KeyBackward
    \/ KeyEscape
    \/ HandleSlideContainerClick
    \/ \E cell \in Cells11 : HandleFagClickSlide11(cell)
    \/ \E cell \in InfoCells : InfoIconClick(cell)
    \/ \E cell \in InfoCells : InfoCellClick(cell)
    \/ \E cell \in InfoCells : SpeechBubbleTextClick(cell)
    \/ \E cell \in InfoCells : BubbleCloseClick(cell)
    \/ \E box \in MathBoxes : MathBoxClick(box)
    \/ QrTriggerClick
    \/ ModalImageClick
    \/ ImageModalCloseClick
    \/ ImageModalBackdropClick
    \/ QrModalCloseClick
    \/ QrModalBackdropClick
    \/ \E t \in timers : ExitTimerFires(t)
    \/ \E t \in timers : AnimateTimerFires(t)
    \/ \E t \in timers : JustSelectedTimerFires(t)
    \/ \E t \in timers : ShakeTimerFires(t)

SpecOverlay == InitOverlay /\ [][NextOverlay]_vars

\* The presentation driven by touch alone: the screenX values give the
\* displacements 10, 30, 50, 60, 80 and 90 in both directions.
SwipeXs == {0, 30, 80, 90}

NextSwipe ==
    \/ \E x \in SwipeXs : HandleTouchStart(x)
    \/ \E x \in SwipeXs : HandleTouchEnd(x)
    \/ \E t \in timers : ExitTimerFires(t)
    \/ \E t \in timers : AnimateTimerFires(t)
    \/ \E t \in timers : VisibleTimerFires(t)

SpecSwipe == InitReveal /\ [][NextSwipe]_vars

\* The presentation with keyboard navigation and the two widgets.
\* SpecWidget waits for the callbacks as Spec does; in SpecStale the user does
\* not: one more callback may be pending when a key or a click schedules
\* further ones, so a callback can run after its slide was left.
InitStale == LoadedWith(StandardDelays, MaxPendingTimers + 1)

NextWidget ==
    \/ KeyForward
    \/ KeyBackward
    \/ \E cell \in Cells10 : HandleFagClick(cell)
    \/ \E cell \in Cells11 : HandleFagClickSlide11(cell)
    \/ \E t \in timers : ExitTimerFires(t)
    \/ \E t \in timers : AnimateTimerFires(t)
    \/ \E t \in timers : VisibleTimerFires(t)
    \/ \E t \in timers : JustSelectedTimerFires(t)
    \/ \E t \in timers : ShakeTimerFires(t)

SpecWidget == Init /\ [][NextWidget]_vars

SpecStale == InitStale /\ [][NextWidget]_vars

\* The presentation with its fullscreen button and key, keyboard navigation
\* and a host that grants or rejects fullscreen requests.
NextFullscreen ==
    \/ KeyForward
    \/ KeyBackward
    \/ KeyF
    \/ FullscreenBtnClick
    \/ RequestGranted
    \/ RequestRejected
    \/ ExitCompleted
    \/ FullscreenChange
    \/ \E t \in timers : ExitTimerFires(t)
    \/ \E t \in timers : AnimateTimerFires(t)
    \/ \E t \in timers : VisibleTimerFires(t)

SpecFullscreen == Init /\ [][NextFullscreen]_vars


(***************************************************************************)
(* Properties.                                                             *)
(***************************************************************************)
AllCells == Cells10 \cup Cells11

AllArrows == Arrows10 \cup Arrows11

\* The flag of a cell, in the state object of its slide.
Flag(cell) ==
    IF cell \in Cells10 THEN interactiveState[cell] ELSE interactiveState11[cell]

\* A step that is the click handler of the cell.
ClickOn(cell) ==
    IF cell \in Cells10 THEN HandleFagClick(cell) ELSE HandleFagClickSlide11(cell)

\* Flags, selection marks, indicators and results of both widgets.
widgetState == <<interactiveState, interactiveState11, selected, justSelected,
                 arrowVisible, resultVisible>>

\* C1: in both widgets, a flag that declares a prerequisite is true only if the
\* prerequisite flag is true, and a cell is marked selected only if the flag
\* of its prerequisite is true.
C1_PrerequisiteSatisfied ==
    \A cell \in AllCells :
        Requires(cell) # "" =>
            /\ Flag(cell) => Flag(Requires(cell))
            /\ cell \in selected => Flag(Requires(cell))

\* C1 witness: on slide 10 fysikk2 is selected over fysikk1, and a click on r2
\* without r1 has been rejected.
C1_Witness ==
    /\ currentSlide = 10
    /\ interactiveState["fysikk1"] /\ interactiveState["fysikk2"]
    /\ "fysikk2" \in selected
    /\ "r2" \in shaking /\ ~interactiveState["r2"] /\ ~interactiveState["r1"]

\* C2: a click on a selected prerequisite cell sets its flag false and, in the
\* same step, sets false and un-marks every cell whose prerequisite it is, and
\* hides the pair's indicator and result, whatever the other flags are.
C2_CascadeOnDeselect ==
    [][\A p \in AllCells :
           (Flag(p) /\ (\E k \in AllCells : Requires(k) = p) /\ ClickOn(p)) =>
               /\ ~Flag(p)'
               /\ p \notin selected'
               /\ \A k \in AllCells :
                      Requires(k) = p =>
                          /\ ~Flag(k)'
                          /\ k \notin selected'
                          /\ k \notin justSelected'
               /\ \A a \in AllArrows :
                      PairOf(a)[1] = p =>
                          a \notin arrowVisible' /\ a \notin resultVisible'
      ]_vars

\* C2 witness: fysikk1 has been deselected while fysikk2, selected a moment
\* before (its just-selected timer is still pending), was selected: both are
\* unselected, the indicator is hidden, and the pair r1/r2 is still complete.
C2_Witness ==
    /\ currentSlide = 10
    /\ ~interactiveState["fysikk1"] /\ ~interactiveState["fysikk2"]
    /\ Timer("just", 10, 0, "fysikk2") \in timers
    /\ "fysikk2" \notin selected /\ "fysikk2" \notin justSelected
    /\ "fysikk" \notin arrowVisible
    /\ interactiveState["r1"] /\ interactiveState["r2"]

\* C3: for each of the four pairs, the indicator and the result are visible
\* exactly when both flags of the pair are true.
C3_IndicatorIffComplete ==
    \A a \in AllArrows :
        /\ a \in arrowVisible <=> (Flag(PairOf(a)[1]) /\ Flag(PairOf(a)[2]))
        /\ a \in resultVisible <=> (Flag(PairOf(a)[1]) /\ Flag(PairOf(a)[2]))

\* C3 witness: on slide 11 the pair okonomi1/okonomi2 is complete and shown,
\* while samfunn1 alone is selected and its indicator is hidden.
C3_Witness ==
    /\ currentSlide = 11
    /\ "okonomi" \in arrowVisible /\ "okonomi" \in resultVisible
    /\ interactiveState11["samfunn1"] /\ ~interactiveState11["samfunn2"]
    /\ "samfunn" \notin arrowVisible

\* The first-visit state of each widget.
Widget10Pristine ==
    /\ \A c \in Cells10 : ~interactiveState[c]
    /\ selected \cap Cells10 = {}
    /\ justSelected \cap Cells10 = {}
    /\ arrowVisible \cap Arrows10 = {}
    /\ resultVisible \cap Arrows10 = {}

Widget11Pristine ==
    /\ \A c \in Cells11 : ~interactiveState11[c]
    /\ selected \cap Cells11 = {}
    /\ justSelected \cap Cells11 = {}
    /\ arrowVisible \cap Arrows11 = {}
    /\ resultVisible \cap Arrows11 = {}

\* C4: every step that leaves slide 10 (slide 11) ends with the widget of that
\* slide in its first-visit state, and every step that enters the slide finds
\* it in that state.
C4_LeavingResets ==
    [][/\ (currentSlide = 10 /\ currentSlide' # 10) => Widget10Pristine'
       /\ (currentSlide # 10 /\ currentSlide' = 10) => Widget10Pristine'
       /\ (currentSlide = 11 /\ currentSlide' # 11) => Widget11Pristine'
       /\ (currentSlide # 11 /\ currentSlide' = 11) => Widget11Pristine'
      ]_vars

\* C4 witness: slide 10 has just been left backwards (its exit mark is still
\* on) and its widget is in the first-visit state.
C4_Witness ==
    /\ currentSlide < 10
    /\ <<10, "exiting-right">> \in exiting
    /\ Widget10Pristine

\* C5: a click on a cell whose prerequisite flag is false changes no flag, no
\* selection mark, no indicator and no result of either widget.
C5_RejectedClickChangesNothing ==
    [][\A a \in AllArrows :
           (~Flag(PairOf(a)[1]) /\ ClickOn(PairOf(a)[2])) => UNCHANGED widgetState
      ]_vars

\* C5 witness: the click on fysikk2 without fysikk1 has been rejected (the
\* shake cue is on), r1 stays selected and fysikk2 stays unselected.
C5_Witness ==
    /\ currentSlide = 10
    /\ "fysikk2" \in shaking
    /\ ~interactiveState["fysikk1"] /\ ~interactiveState["fysikk2"]
    /\ "fysikk2" \notin selected
    /\ interactiveState["r1"] /\ "r1" \in selected


\* C6: the current slide is 1 until the first move and always lies in
\* 1..totalSlides.
C6_SlideInRange ==
    /\ currentSlide \in 1..totalSlides
    /\ direction = "" => currentSlide = 1

\* C6 witness: the last slide has been reached forwards, a touch having been
\* recorded on the way.
C6_Witness ==
    /\ currentSlide = totalSlides
    /\ direction = "next"
    /\ touchStartX # 0

\* C7: goToSlide(n) with n outside 1..totalSlides leaves the current slide
\* unchanged; so do nextSlide on the last slide and prevSlide on the first
\* (no step that changes the current slide is one of these calls).
C7_OutOfRangeKeepsSlide ==
    [][currentSlide' # currentSlide =>
           /\ \A n \in InvalidArgs : ~GoToSlide(n)
           /\ currentSlide = totalSlides => ~NextSlide
           /\ currentSlide = 1 => ~PrevSlide
      ]_vars

\* C7 witness: the last slide, reached forwards, with no timer pending: the
\* forward key, the swipe and goToSlide(totalSlides + 1) are all taken here.
C7_Witness ==
    /\ currentSlide = totalSlides
    /\ direction = "next"
    /\ nextDisabled
    /\ timers = {}

ProgressMatches ==
    progressWidth[1] * (totalSlides - 1)
        = (currentSlide - 1) * 100 * progressWidth[2]

\* C9: the previous control is disabled exactly on slide 1, the next control
\* exactly on slide totalSlides, the readout shows the current slide and the
\* progress width is (currentSlide - 1) / (totalSlides - 1) of 100 percent;
\* each nextSlide below the last slide advances by one, so that 13 of them from
\* slide 1 end on slide 14 with the next control disabled and 100 percent.
C9_ControlsAndProgress ==
    /\ [](/\ prevDisabled <=> currentSlide = 1
          /\ nextDisabled <=> currentSlide = totalSlides
          /\ currentSlideText = currentSlide
          /\ progressWidth[2] > 0
          /\ ProgressMatches
          /\ currentSlide = totalSlides => progressWidth[1] = 100 * progressWidth[2])
    /\ [][(currentSlide < totalSlides /\ NextSlide) =>
              currentSlide' = currentSlide + 1]_vars

\* C9 witness: slide 14 with the next control disabled, the previous control
\* enabled, the readout at 14 and the progress at 100 percent.
C9_Witness ==
    /\ currentSlide = 14
    /\ nextDisabled /\ ~prevDisabled
    /\ currentSlideText = 14
    /\ progressWidth = <<1300, 13>>

\* What goToSlide(n) is specified to do from the current state: move to n if n
\* is a slide, reset the widget of the slide being left, and leave the other
\* widget, the reveal counters and the revealed elements alone.
MovesAsGoToSlide(n) ==
    /\ currentSlide' = IF n \in 1..totalSlides THEN n ELSE currentSlide
    /\ active' = {currentSlide'}
    /\ IF currentSlide = 10 /\ n # 10
       THEN Widget10Pristine'
       ELSE /\ interactiveState' = interactiveState
            /\ selected' \cap Cells10 = selected \cap Cells10
            /\ arrowVisible' \cap Arrows10 = arrowVisible \cap Arrows10
            /\ resultVisible' \cap Arrows10 = resultVisible \cap Arrows10
    /\ IF currentSlide = 11 /\ n # 11
       THEN Widget11Pristine'
       ELSE /\ interactiveState11' = interactiveState11
            /\ selected' \cap Cells11 = selected \cap Cells11
            /\ arrowVisible' \cap Arrows11 = arrowVisible \cap Arrows11
            /\ resultVisible' \cap Arrows11 = resultVisible \cap Arrows11
    /\ UNCHANGED revealVars

\* The forward key or a swipe to the left is a reveal step, not nextSlide.
RevealPending ==
    currentSlide \in ClickRevealSlides
        /\ CountOr0(clickRevealState, currentSlide)
               < Len(DataDelay(currentSlide))

\* C10: every control that invokes nextSlide (next button, forward key and
\* swipe to the left when no reveal step is pending) acts as goToSlide of the
\* current slide plus one, and every control that invokes prevSlide (previous
\* button, backward key, swipe to the right) as goToSlide of the current slide
\* minus one, the reset of the widget of slide 10 or 11 included.
C10_NextPrevAsGoToSlide ==
    [][/\ NextBtnClick => MovesAsGoToSlide(currentSlide + 1)
       /\ (~RevealPending /\ KeyForward) => MovesAsGoToSlide(currentSlide + 1)
       /\ \A x \in TouchXs :
              (touchStartX - x > swipeThreshold /\ ~RevealPending
                   /\ HandleTouchEnd(x)) =>
                  MovesAsGoToSlide(currentSlide + 1)
       /\ PrevBtnClick => MovesAsGoToSlide(currentSlide - 1)
       /\ KeyBackward => MovesAsGoToSlide(currentSlide - 1)
       /\ \A x \in TouchXs :
              (x - touchStartX > swipeThreshold /\ HandleTouchEnd(x)) =>
                  MovesAsGoToSlide(currentSlide - 1)
      ]_vars

\* C10 witness: slide 10 has just been left forwards after a swipe to the left
\* was started at x = 60, and its widget is in the first-visit state.
C10_Witness ==
    /\ currentSlide = 11
    /\ <<10, "exiting-left">> \in exiting
    /\ touchStartX = 60
    /\ Widget10Pristine

(***************************************************************************)
(* Properties of the reveal sequencer (checked under SpecReveal).          *)
(***************************************************************************)
\* C11: the counter of every click-reveal slide, once created, is at least 0
\* and at most the number of [data-delay] elements of the slide; no other
\* slide gets a counter.
C11_CounterInRange ==
    \A s \in Slides :
        IF s \in ClickRevealSlides
        THEN clickRevealState[s] = Undefined
                 \/ (clickRevealState[s] >= 0
                        /\ clickRevealState[s] <= Len(DataDelay(s)))
        ELSE clickRevealState[s] = Undefined

\* C11 witness: on slide 10 all three elements are revealed, the counter is at
\* the element count, and the forward swipe that got there started at x = 60.
C11_Witness ==
    /\ currentSlide = 10
    /\ clickRevealState[10] = Len(DataDelay(10))
    /\ Len(DataDelay(10)) = 3
    /\ Animatables(10) \subseteq visible
    /\ touchStartX = 60

\* The elements of slide s whose data-delay is k.
Tagged(s, k) == {<<s, i - 1>> : i \in {j \in 1..Len(dataDelay[s]) : dataDelay[s][j] = k}}

\* The counter of the current slide and the number of its tagged elements.
Counter == CountOr0(clickRevealState, currentSlide)

ElementCount == Len(dataDelay[currentSlide])

\* The step makes exactly the elements tagged k of the current slide visible
\* and sets the counter to k + 1, on the current slide.
RevealsOrdinal(k) ==
    /\ visible' = visible \cup Tagged(currentSlide, k)
    /\ clickRevealState' = [clickRevealState EXCEPT ![currentSlide] = k + 1]
    /\ currentSlide' = currentSlide

\* C12: on a click-reveal slide, revealNextElement with counter k below the
\* element count makes exactly the element tagged k visible and sets the
\* counter to k + 1; with the counter at the element count it changes nothing
\* and returns false; a forward key is that reveal step while k is below the
\* element count and moves to the next slide once k has reached it.
C12_RevealStep ==
    [][/\ RevealNextElementCall =>
              IF Counter < ElementCount
              THEN RevealsOrdinal(Counter) /\ RevealNextElementReturns
              ELSE UNCHANGED revealVars /\ ~RevealNextElementReturns
       /\ (IsClickReveal(currentSlide) /\ KeyForward) =>
              IF Counter < ElementCount
              THEN RevealsOrdinal(Counter)
              ELSE UNCHANGED revealVars /\ currentSlide' = currentSlide + 1
      ]_vars

\* C12 witness: slide 10 has three elements, all revealed one by one, and the
\* next forward key has moved on to slide 11.
C12_Witness ==
    /\ currentSlide = 11
    /\ <<10, "exiting-left">> \in exiting
    /\ Len(dataDelay[10]) = 3
    /\ clickRevealState[10] = 3
    /\ Animatables(10) \subseteq visible
    /\ touchStartX = 0

\* A swipe to the left: the finger travels more than the threshold.
SwipeLeft == \E x \in TouchXs : touchStartX - x > swipeThreshold /\ HandleTouchEnd(x)

DefaultSuppressed ==
    \E i \in 1..Len(escapeEffects') : escapeEffects'[i] = "preventDefault"

\* C14: Escape on a click-reveal slide with counter k > 0 sets the counter to
\* k - 1, hides the element tagged k - 1 and calls preventDefault; with the
\* counter at 0 or undefined, or on any other slide, it changes no counter and
\* no element visibility and does not call preventDefault.
C14_EscapeStepsBack ==
    [][KeyEscape =>
           IF currentSlide \in ClickRevealSlides /\ clickRevealState[currentSlide] > 0
           THEN /\ clickRevealState' =
                       [clickRevealState EXCEPT
                            ![currentSlide] = clickRevealState[currentSlide] - 1]
                /\ visible' =
                       visible \ Tagged(currentSlide, clickRevealState[currentSlide] - 1)
                /\ DefaultSuppressed
           ELSE /\ UNCHANGED <<clickRevealState, visible>>
                /\ ~DefaultSuppressed
      ]_vars

\* C14 witness: Escape has just taken the counter of slide 10 from 2 to 1 and
\* hidden the element tagged 1, the second to be revealed.
C14_Witness ==
    /\ currentSlide = 10
    /\ escapeEffects = <<"hide", "preventDefault">>
    /\ clickRevealState[10] = 1
    /\ Tagged(10, 0) \subseteq visible
    /\ Tagged(10, 1) \cap visible = {}

\* The elements the step makes visible.
NewlyVisible == visible' \ visible

\* C15: an element of a click-reveal slide becomes visible only by a reveal
\* step on that slide (the slide is current and stays so, no timer callback
\* runs, the counter of the slide goes up by one), never by entering the slide
\* or by a timer, and no 'visible' timer is ever pending for such a slide;
\* forward keys, swipes to the left and container clicks make no element of
\* any other slide visible.
C15_RevealModesExclusive ==
    [][/\ \A el \in NewlyVisible :
              el[1] \in ClickRevealSlides =>
                  /\ el[1] = currentSlide
                  /\ currentSlide' = currentSlide
                  /\ timers' = timers
                  /\ clickRevealState'[el[1]] = Counter + 1
       /\ \A t \in timers' : t.kind = "visible" => t.slide \notin ClickRevealSlides
       /\ (KeyForward \/ SwipeLeft \/ HandleSlideContainerClick)
              => \A el \in NewlyVisible : el[1] \in ClickRevealSlides
      ]_vars

\* C15 witness: slide 10 has been entered and its animateSlide callback has
\* run, no timer is pending, and none of its three elements is visible, while
\* the elements of slide 1 were auto-animated.
C15_Witness ==
    /\ currentSlide = 10
    /\ clickRevealState[10] = 0
    /\ timers = {}
    /\ Len(dataDelay[10]) = 3
    /\ Animatables(10) \cap visible = {}
    /\ Animatables(1) \subseteq visible
    /\ exiting = {}
    /\ touchStartX = 0

\* C16: on a slide that is not click-reveal the tagged elements become
\* visible in ascending order of their data-delay: whenever an element is
\* visible, every element of the slide with a smaller data-delay is visible
\* too, the one tagged 0 included wherever it sits in the document.
C16_AscendingOrdinalOrder ==
    \A s \in Slides \ ClickRevealSlides :
        \A el \in Animatables(s) \cap visible :
            \A lower \in Animatables(s) :
                DelayOf(lower) < DelayOf(el) => lower \in visible

\* C17: navigating away from a click-reveal slide resets the counter of that
\* slide to 0 (or leaves it uncreated) and hides its tagged elements, so that
\* the next visit starts from counter 0.
C17_LeavingResetsCounter ==
    [][(currentSlide \in ClickRevealSlides /\ currentSlide' # currentSlide) =>
           /\ CountOr0(clickRevealState', currentSlide) = 0
           /\ Animatables(currentSlide) \cap visible' = {}
      ]_vars

(***************************************************************************)
(* Properties of the overlays (checked under SpecOverlay).                 *)
(***************************************************************************)
\* C18: at most one speech bubble is visible, whatever clicks and Escape
\* presses were taken; a click on the info icon or on the info cell closes
\* the cell's own bubble if it was visible and otherwise leaves that bubble as
\* the only visible one.
C18_AtMostOneBubble ==
    [][/\ Cardinality(bubbleVisible') <= 1
       /\ \A cell \in InfoCells :
              (InfoIconClick(cell) \/ InfoCellClick(cell)) =>
                  /\ cell \in bubbleVisible => bubbleVisible' = {}
                  /\ cell \notin bubbleVisible => bubbleVisible' = {cell}
      ]_vars

\* C18 witness: on slide 11, with a cell of the widget selected, the bubble of
\* the second info cell is the one visible bubble.
C18_Witness ==
    /\ currentSlide = InfoSlide
    /\ bubbleVisible = {"spansk2"}
    /\ interactiveState11["okonomi1"]
    /\ timers = {}

\* A click whose target lies in no info cell and whose listener lets it
\* travel on to the document.
PropagatingOutsideClick ==
    \/ HandleSlideContainerClick
    \/ ModalImageClick
    \/ ImageModalCloseClick
    \/ ImageModalBackdropClick
    \/ QrModalCloseClick
    \/ QrModalBackdropClick

\* A click on a clickable cell of the widget of slide 11, on an optional math
\* box or on the QR trigger.
StoppedOutsideClick ==
    \/ \E cell \in Cells11 : HandleFagClickSlide11(cell)
    \/ \E box \in MathBoxes : MathBoxClick(box)
    \/ QrTriggerClick

\* C19: every click whose target lies outside the info cells, a click on a
\* clickable widget cell, an optional math box or the QR trigger included,
\* and every Escape press leaves no speech bubble visible.
C19_OutsideClickClosesBubbles ==
    [][(PropagatingOutsideClick \/ StoppedOutsideClick \/ KeyEscape) =>
           bubbleVisible' = {}
      ]_vars

\* The effects of the Escape press just taken that close a speech bubble or a
\* modal.
CloseEffects == {"closeBubbles", "closeImageModal", "closeQrModal"}

\* C20: when Escape is pressed while a speech bubble, the image modal or the
\* QR modal is visible, the close comes before every other effect of the
\* press: the step back of the click-reveal counter does not run ahead of it.
C20_CloseBeforeStepBack ==
    [][(KeyEscape /\ (bubbleVisible # {} \/ imageModalVisible \/ qrModalVisible)) =>
           \A i \in 1..Len(escapeEffects') :
               escapeEffects'[i] \notin CloseEffects =>
                   \E j \in 1..(i - 1) : escapeEffects'[j] \in CloseEffects
      ]_vars

\* C21: after every step that changes the current slide, keyboard navigation
\* included, no speech bubble is visible and neither the image modal nor the
\* QR modal is visible.
C21_NavigationClearsOverlays ==
    [][currentSlide' # currentSlide =>
           /\ bubbleVisible' = {}
           /\ ~imageModalVisible'
           /\ ~qrModalVisible'
      ]_vars

(***************************************************************************)
(* Properties of the swipe gesture (checked under SpecSwipe).              *)
(***************************************************************************)
\* C22: a touch end acts only if the displacement touchStartX - touchEndX is
\* above 50 px in absolute value: to the left it is the step a forward key
\* would take, to the right the step a backward key would take, one slide
\* back; 60 px on a slide that is not click-reveal advances exactly one slide;
\* a displacement of at most 50 px (30 px, exactly 50 px) changes nothing.
C22_SwipeThreshold ==
    [][\A x \in SwipeXs :
           HandleTouchEnd(x) =>
               LET d == touchStartX - x
               IN  /\ d > 50 => KeyForward
                   /\ d < -50 => KeyBackward
                   /\ (d < -50 /\ currentSlide > 1) =>
                          currentSlide' = currentSlide - 1
                   /\ (d = 60 /\ currentSlide \notin ClickRevealSlides
                              /\ currentSlide < totalSlides) =>
                          currentSlide' = currentSlide + 1
                   /\ (d >= -50 /\ d <= 50) => UNCHANGED coreVars
      ]_vars

\* C22 witness: swipes alone have revealed the three elements of slide 10 and
\* then advanced to slide 11, the last touch having started at 90.
C22_Witness ==
    /\ currentSlide = 11
    /\ clickRevealState[10] = 3
    /\ <<10, "exiting-left">> \in exiting
    /\ touchStartX = 90

(***************************************************************************)
(* Properties of late callbacks (checked under SpecStale).                 *)
(***************************************************************************)
\* The callback t runs in this step.
TimerFires(t) ==
    \/ ExitTimerFires(t)
    \/ AnimateTimerFires(t)
    \/ VisibleTimerFires(t)
    \/ JustSelectedTimerFires(t)

\* The slide the callback t was scheduled for has been left since: an exit
\* callback is scheduled by the very move that leaves its slide, the initial
\* animation is meant for slide 1, any other callback is late once its slide
\* is not the current one.
ScheduledForLeftSlide(t) ==
    \/ t.kind = "exit"
    \/ t.kind = "init" /\ currentSlide # 1
    \/ t.kind \in {"animate", "visible", "just"} /\ t.slide # currentSlide

\* The step leaves the current slide as it is: active mark, exit marks,
\* reveal counter, visibility of its elements, widget flags.
CurrentSlideUntouched ==
    /\ (currentSlide \in active') = (currentSlide \in active)
    /\ \A n \in {"exiting-left", "exiting-right"} :
           (<<currentSlide, n>> \in exiting') = (<<currentSlide, n>> \in exiting)
    /\ clickRevealState'[currentSlide] = clickRevealState[currentSlide]
    /\ Animatables(currentSlide) \cap visible' = Animatables(currentSlide) \cap visible
    /\ UNCHANGED <<interactiveState, interactiveState11>>

\* C23: a timer callback that runs after the slide it was scheduled for has
\* been left changes nothing of the slide that is current when it runs.
C23_LateCallbackSparesCurrentSlide ==
    [][\A t \in timers :
           (ScheduledForLeftSlide(t) /\ TimerFires(t)) => CurrentSlideUntouched
      ]_vars

(***************************************************************************)
(* Further properties of the core (checked under Spec and SpecWidget).     *)
(***************************************************************************)
\* Both flags of the pair of an arrow are true.
PairComplete(a) == Flag(PairOf(a)[1]) /\ Flag(PairOf(a)[2])

\* C24: the position of a pair's arrow is computed in a step exactly if the
\* step takes the pair from not complete to complete: not by a click that
\* leaves the pair complete, and again at the next completion after the pair
\* was broken or the slide was reset.
C24_PositionedOncePerCompletion ==
    [][\A a \in AllArrows :
           (a \in arrowPositioned') = (PairComplete(a)' /\ ~PairComplete(a))
      ]_vars

\* C24 witness: on slide 10 the click just taken has completed the pair
\* fysikk1/fysikk2 and computed its arrow, and only that one, while the pair
\* r1/r2 was complete already.
C24_Witness ==
    /\ currentSlide = 10
    /\ arrowPositioned = {"fysikk"}
    /\ interactiveState["r1"] /\ interactiveState["r2"]
    /\ "matte" \in arrowVisible

\* C25: goToSlide(n) with n in range and different from the current slide
\* sets the direction to next if n is above the current slide and to prev
\* otherwise, marks the slide that was current exiting-left for next and
\* exiting-right for prev, and makes n the current and the only active
\* slide; goToSlide of the current slide adds no exit mark and keeps the
\* slide index.
C25_DirectionAndExitMark ==
    [][\A n \in Slides :
           GoToSlide(n) =>
               IF n # currentSlide
               THEN /\ direction' = IF n > currentSlide THEN "next" ELSE "prev"
                    /\ exiting' =
                           exiting \cup
                               {<<currentSlide,
                                  IF n > currentSlide THEN "exiting-left"
                                  ELSE "exiting-right">>}
                    /\ active' = {n}
                    /\ currentSlide' = n
               ELSE /\ exiting' = exiting
                    /\ currentSlide' = currentSlide
      ]_vars

\* C25 witness: a move back from slide 4 has made slide 3 the active one,
\* with direction prev and slide 4 marked exiting-right.
C25_Witness ==
    /\ currentSlide = 3
    /\ active = {3}
    /\ direction = "prev"
    /\ <<4, "exiting-right">> \in exiting
    /\ touchStartX = 60

(***************************************************************************)
(* Properties of the fullscreen button (checked under SpecFullscreen).     *)
(***************************************************************************)
\* The display of the two icons of the fullscreen button.
icons == <<fullscreenIconDisplay, exitFullscreenIconDisplay>>

\* C26: a rejected fullscreen request is logged and leaves the fullscreen
\* element, the icons and all state of the slides, widgets and overlays as
\* they are; the icons change only in a step of the fullscreenchange listener,
\* and after such a step the exit icon is shown exactly if there is a
\* fullscreen element and the enter icon exactly if there is none.
C26_RejectedRequestIgnored ==
    [][/\ RequestRejected =>
              /\ fullscreenErrorLogged'
              /\ UNCHANGED <<fullscreenElement, icons, coreVars, docVars, overlayVars>>
       /\ icons' # icons => FullscreenChange
       /\ FullscreenChange =>
              icons' = IF fullscreenElement' THEN <<"none", "block">>
                       ELSE <<"block", "none">>
      ]_vars

\* C26 witness: on slide 2 a request was rejected before any fullscreenchange
\* event: the error is logged, there is no fullscreen element, and the icons
\* are as the page loaded them.
C26_Witness ==
    /\ fullscreenErrorLogged
    /\ ~fullscreenElement
    /\ fullscreenOps = {}
    /\ icons = <<"", "">>
    /\ currentSlide = 2

\* C29: whenever the current slide is not 10, the four flags of slide 10 are
\* false and no cell, arrow or result of slide 10 is marked; likewise for
\* slide 11 (cells are clicked only while their slide is current).
C29_WidgetsPristineOffSlide ==
    /\ currentSlide # 10 => Widget10Pristine
    /\ currentSlide # 11 => Widget11Pristine

\* C29 witness: slide 12 has been reached from slide 11 by a move forward,
\* past both widgets, and slide 11 is still marked exiting.
C29_Witness ==
    /\ currentSlide = 12
    /\ <<11, "exiting-left">> \in exiting
    /\ Widget10Pristine /\ Widget11Pristine
    /\ touchStartX = 60

\* The two cells of the pair of an arrow.
PairCells(a) == {PairOf(a)[1], PairOf(a)[2]}

\* C30: a click on a cell changes nothing of a pair the cell is not part of,
\* neither the flags of its two cells nor their selected and just-selected
\* marks nor its arrow and result, and a click on a cell of slide 10 changes
\* no flag of slide 11 and the other way round.
C30_PairsIndependent ==
    [][\A cell \in AllCells :
           ClickOn(cell) =>
               /\ \A a \in AllArrows :
                      cell \notin PairCells(a) =>
                          /\ \A c \in PairCells(a) :
                                 /\ Flag(c)' = Flag(c)
                                 /\ (c \in selected') = (c \in selected)
                                 /\ (c \in justSelected') = (c \in justSelected)
                          /\ (a \in arrowVisible') = (a \in arrowVisible)
                          /\ (a \in resultVisible') = (a \in resultVisible)
               /\ cell \in Cells10 => interactiveState11' = interactiveState11
               /\ cell \in Cells11 => interactiveState' = interactiveState
      ]_vars

\* C30 witness: on slide 10 fysikk1 has just been deselected, taking fysikk2
\* with it (its arrow is hidden), while the pair r1/r2 is still complete,
\* marked and shown.
C30_Witness ==
    /\ currentSlide = 10
    /\ ~interactiveState["fysikk1"] /\ ~interactiveState["fysikk2"]
    /\ "fysikk" \notin arrowVisible
    /\ interactiveState["r1"] /\ interactiveState["r2"]
    /\ {"r1", "r2"} \subseteq selected
    /\ "matte" \in arrowVisible /\ "matte" \in resultVisible
    /\ arrowPositioned = {}
    /\ timers = {}

(***************************************************************************)
(* Further properties of the overlays and the reveal indicator (checked    *)
(* under SpecOverlay).                                                     *)
(***************************************************************************)
\* C27: after a container click, a forward key, a swipe to the left, an
\* Escape press and any step that changes the slide, the click-reveal
\* indicator is visible exactly if the current slide is click-reveal and has
\* elements left to reveal.
C27_IndicatorMatchesPending ==
    [][(\/ HandleSlideContainerClick
        \/ KeyForward
        \/ SwipeLeft
        \/ KeyEscape
        \/ currentSlide' # currentSlide) =>
           (clickRevealIndicator' = RevealPending')
      ]_vars

C31_ActiveNeverExiting ==
    \A s \in active :
        \A n \in {"exiting-left", "exiting-right"} : <<s, n>> \notin exiting

\* The step is the entry callback of some slide (line 93, or lines 47-50).
EntryCallbackFires == \E t \in timers : AnimateTimerFires(t)

\* A reveal step requested on the current slide by a forward key, a click on
\* the slide background or a direct call.
RevealRequested ==
    /\ IsClickReveal(currentSlide)
    /\ Counter < ElementCount
    /\ KeyForward \/ HandleSlideContainerClick \/ RevealNextElementCall

\* C32: the entry callback of a slide creates a missing counter with 0 and
\* changes no counter that exists and no element's visibility; a reveal step
\* taken while the counter is still missing does what it does on a counter
\* of 0, so that reveal steps and the callback give the same counter and the
\* same visible elements in either order; and a step that changes the slide
\* lowers no counter.
C32_EntryCallbackOnlyInitialises ==
    [][/\ EntryCallbackFires =>
              /\ visible' = visible
              /\ \A s \in Slides :
                     \/ clickRevealState'[s] = clickRevealState[s]
                     \/ /\ clickRevealState[s] = Undefined
                        /\ clickRevealState'[s] = 0
                        /\ IsClickReveal(s)
       /\ (RevealRequested /\ clickRevealState[currentSlide] = Undefined) =>
              RevealsOrdinal(0)
       /\ (currentSlide' # currentSlide) =>
              \A s \in Slides :
                  CountOr0(clickRevealState', s) >= CountOr0(clickRevealState, s)
      ]_vars

\* C32 witness: slide 10 was left with all three elements revealed and has
\* been entered again from slide 11; the entry callback of that visit has run
\* and the counter is still 3.
C32_Witness ==
    /\ currentSlide = 10
    /\ <<11, "exiting-right">> \in exiting
    /\ Timer("animate", 10, 0, "") \notin timers
    /\ clickRevealState[10] = 3
    /\ Animatables(10) \subseteq visible

\* C33: exactly one slide is marked active, and it is the slide whose number
\* is the current slide index.
C33_OneActiveSlide ==
    /\ Cardinality(active) = 1
    /\ currentSlide \in active

\* C33 witness: slide 13 was reached backwards from slide 14 and is the one
\* active slide.
C33_Witness ==
    /\ currentSlide = 13
    /\ active = {13}
    /\ direction = "prev"
    /\ <<14, "exiting-right">> \in exiting

\* The elements of slide s carry the ordinals 0 .. m-1, each once.
DistinctOrdinals(s) ==
    \A k \in 0..(Len(DataDelay(s)) - 1) : Cardinality(Tagged(s, k)) = 1

\* The counters crs and the visible elements vis are those of the current
\* state, a missing counter read as 0 as the reveal functions read it.
SameRevealState(crs, vis) ==
    /\ vis = visible
    /\ \A s \in Slides : CountOr0(crs, s) = CountOr0(clickRevealState, s)

\* C34: on a click-reveal slide with distinct ordinals 0 .. m-1, a reveal
\* step followed by a cancel-key step gives back the counter and the set of
\* visible elements the reveal step started from, and with the counter above
\* 0 a cancel-key step followed by a reveal step does the same.
C34_RevealCancelRoundTrip ==
    (IsClickReveal(currentSlide) /\ DistinctOrdinals(currentSlide)) =>
        /\ ~AllElementsRevealed(currentSlide, clickRevealState) =>
               LET crs1 == CounterRevealed(clickRevealState, currentSlide)
                   vis1 == VisibleRevealed(clickRevealState, visible, currentSlide)
               IN  /\ CountOr0(crs1, currentSlide) > 0
                   /\ SameRevealState(CounterHidden(crs1, currentSlide),
                                      VisibleHidden(crs1, vis1, currentSlide))
        /\ CanHideLast =>
               LET crs1 == CounterHidden(clickRevealState, currentSlide)
                   vis1 == VisibleHidden(clickRevealState, visible, currentSlide)
               IN  /\ ~AllElementsRevealed(currentSlide, crs1)
                   /\ SameRevealState(CounterRevealed(crs1, currentSlide),
                                      VisibleRevealed(crs1, vis1, currentSlide))

\* C34 witness: on slide 10 the third element was revealed and Escape has
\* just hidden it again: the counter is back at 2, the elements tagged 0 and
\* 1 are visible and the element tagged 2 is not.
C34_Witness ==
    /\ currentSlide = 10
    /\ DistinctOrdinals(10)
    /\ escapeEffects = <<"hide", "preventDefault">>
    /\ clickRevealState[10] = 2
    /\ Tagged(10, 0) \cup Tagged(10, 1) \subseteq visible
    /\ Tagged(10, 2) \cap visible = {}

\* A swipe to the right: the finger travels more than the threshold.
SwipeRight ==
    \E x \in TouchXs : x - touchStartX > swipeThreshold /\ HandleTouchEnd(x)

\* C35: a backward key, a swipe to the right and a click on the previous
\* control move from slide k > 1 to slide k - 1 whatever the number of
\* revealed elements, and change no slide's reveal counter and no element's
\* visibility.
C35_BackwardIsDirect ==
    [][(KeyBackward \/ SwipeRight \/ PrevBtnClick) =>
           /\ currentSlide > 1 => currentSlide' = currentSlide - 1
           /\ UNCHANGED <<clickRevealState, visible>>
      ]_vars

\* C35 witness: slide 10 was left backwards with one of its three elements
\* revealed; the counter is still 1 and the element still visible.
C35_Witness ==
    /\ currentSlide = 9
    /\ <<10, "exiting-right">> \in exiting
    /\ clickRevealState[10] = 1
    /\ visible \cap Animatables(10) = Tagged(10, 0)

====
